---------------------------- MODULE Spec2Model ----------------------------
(***************************************************************************)
(* Account authentication of VectorCore/Website: the credential hooks and  *)
(* methods of App/Models/Account.js and the session / remember-me          *)
(* middleware chain of Server.js.                                          *)
(*                                                                         *)
(* Strings are sequences of character codes (naturals).  JavaScript's      *)
(* millisecond counts do not fit TLC's 32-bit integers                     *)
(* (1000*60*60*24*30 = 2592000000), so every duration and instant is kept  *)
(* in seconds: the code's value divided by its leading factor 1000.        *)
(*                                                                         *)
(* The three parts (credential, remember-me, session cookie) share no      *)
(* state, so each has its own next-state relation and specification over   *)
(* the common Init.                                                        *)
(***************************************************************************)
EXTENDS Integers, Sequences, FiniteSets

VARIABLES
    doc,        \* the in-memory Account document (Null before registration)
    stored,     \* the account record in the database (Null before the first save)
    created,    \* the plaintext password the account owner currently chose
    saves,      \* number of completed save() calls
    updates,    \* number of findOneAndUpdate calls
    lastOp,     \* the last credential operation: whether it carried a new
                \* Password, whether it failed, the stored Password before it
    remember,   \* the Remember field of each account record in the database
    calls,      \* the SetRemember calls made so far, each with its Response
    log,        \* what Logger.Analyze was handed
    lastWrite,  \* per account, the call whose write was applied last (0: none)
    req,        \* the request passing through the middleware chain
    now,        \* the clock: seconds since the server started
    cookieOpts, \* the cookie option object handed to express-session at startup
    sessions    \* the session cookies issued so far

credVars == <<doc, stored, created, saves, updates, lastOp>>
remVars == <<remember, calls, log, lastWrite, req>>
sesVars == <<now, cookieOpts, sessions>>

Null == <<>>

-----------------------------------------------------------------------------
(* Bounds of the model *)

MaxPwLen == 1
NSalts == 2
MaxSaves == 2
MaxUpdates == 1
MaxCalls == 2
MaxUptimeHours == 8
MaxSessions == 3

-----------------------------------------------------------------------------
(* bcrypt, as Account.js uses it *)

SaltRounds == 15

\* first character of every bcrypt string, '$'
BcryptPrefix == 36

PwChars == {97, 98}

SeqsUpTo(S, n) == UNION {[1..k -> S] : k \in 1..n}

\* the passwords a user may submit: non-empty (Password is required), short
Passwords == SeqsUpTo(PwChars, MaxPwLen)

Names == {<<110>>, <<109>>}

Nonces == 1..NSalts

\* bcrypt.genSaltSync(rounds): a random salt carrying the work factor
genSaltSync(rounds, nonce) == <<BcryptPrefix, rounds, nonce>>

IsBcrypt(s) == Len(s) >= 3 /\ s[1] = BcryptPrefix

saltOf(hash) == SubSeq(hash, 1, 3)

\* bcrypt.hashSync(data, salt): salt followed by a digest that is one-to-one
\* in (salt, data); the digest is kept as the data it was computed from
hashSync(data, salt) == salt \o data

\* bcrypt.compareSync(data, hash): false for a string that is no bcrypt hash,
\* else re-hash data under the hash's own salt and compare
compareSync(data, hash) ==
    /\ IsBcrypt(hash)
    /\ hashSync(data, saltOf(hash)) = hash

-----------------------------------------------------------------------------
(* Account: hooks and methods *)

\* Account.pre('save') with the hashing dropped
PreSavePlain(this, nonce) == this

\* Account.pre('save'): hashes this.Password, whatever it holds
PreSave(this, nonce) ==
    [this EXCEPT !.Password = hashSync(this.Password, genSaltSync(SaltRounds, nonce))]

HasPassword(update) == "Password" \in DOMAIN update

\* Account.pre('findOneAndUpdate'): hashes $set.Password; bcrypt.hashSync
\* throws on an undefined data argument, which fails the operation
PreFindOneAndUpdate(update, nonce) ==
    IF HasPassword(update)
    THEN [error |-> FALSE,
          update |-> [update EXCEPT !.Password =
                         hashSync(update.Password, genSaltSync(SaltRounds, nonce))]]
    ELSE [error |-> TRUE, update |-> update]

\* the fields of `update` written over record `rec`
ApplyUpdate(rec, update) ==
    [f \in DOMAIN rec |-> IF f \in DOMAIN update THEN update[f] ELSE rec[f]]

\* Account.methods.ComparePassword
ComparePassword(this, Password) == compareSync(Password, this.Password)

\* the $set documents a caller may pass to findOneAndUpdate
Updates ==
    {[Name |-> n] : n \in Names}
    \cup {[Password |-> p] : p \in Passwords}
    \cup {[Name |-> n, Password |-> p] : n \in Names, p \in Passwords}

NoOp == [op |-> "none", pwChange |-> FALSE, error |-> FALSE, before |-> Null]

\* whether the document's Password was assigned since it was last written:
\* true of a new document and after document.Password = P
PasswordModified == stored = Null \/ doc.Password # stored.Password

\* new Account({ Name, Password })
Register(P, n) ==
    /\ doc = Null
    /\ doc' = [Password |-> P, Name |-> n]
    /\ created' = P
    /\ lastOp' = [NoOp EXCEPT !.op = "new"]
    /\ UNCHANGED <<stored, saves, updates, remVars, sesVars>>

\* document.Password = P
AssignPassword(P) ==
    /\ doc # Null
    /\ stored # Null
    /\ doc' = [doc EXCEPT !.Password = P]
    /\ created' = P
    /\ lastOp' = [NoOp EXCEPT !.op = "assign"]
    /\ UNCHANGED <<stored, saves, updates, remVars, sesVars>>

\* document.Name = n
AssignName(n) ==
    /\ doc # Null
    /\ doc.Name # n
    /\ doc' = [doc EXCEPT !.Name = n]
    /\ lastOp' = [NoOp EXCEPT !.op = "assign"]
    /\ UNCHANGED <<stored, created, saves, updates, remVars, sesVars>>

\* document.save(): the pre-save hook, then the write
Save(nonce) ==
    /\ doc # Null
    /\ saves < MaxSaves
    /\ doc' = PreSave(doc, nonce)
    /\ stored' = doc'
    /\ saves' = saves + 1
    /\ lastOp' = [op |-> "save",
                  pwChange |-> PasswordModified,
                  error |-> FALSE,
                  before |-> IF stored = Null THEN Null ELSE stored.Password]
    /\ UNCHANGED <<created, updates, remVars, sesVars>>

\* Account.findOneAndUpdate(filter, { $set: update }): the hook, then the
\* write; the updated document is what the caller holds afterwards
FindOneAndUpdate(update, nonce) ==
    /\ stored # Null
    /\ updates < MaxUpdates
    /\ updates' = updates + 1
    /\ LET r == PreFindOneAndUpdate(update, nonce) IN
        /\ stored' = IF r.error THEN stored ELSE ApplyUpdate(stored, r.update)
        /\ doc' = IF r.error THEN doc ELSE stored'
        /\ created' = IF ~r.error /\ HasPassword(update) THEN update.Password ELSE created
        /\ lastOp' = [op |-> "findOneAndUpdate",
                      pwChange |-> HasPassword(update),
                      error |-> r.error,
                      before |-> stored.Password]
    /\ UNCHANGED <<saves, remVars, sesVars>>

NextCredential ==
    \/ \E P \in Passwords, n \in Names : Register(P, n)
    \/ \E P \in Passwords : AssignPassword(P)
    \/ \E n \in Names : AssignName(n)
    \/ \E nonce \in Nonces : Save(nonce)
    \/ \E u \in Updates, nonce \in Nonces : FindOneAndUpdate(u, nonce)


-----------------------------------------------------------------------------
(* Remember-me: token issuance *)

Accounts == {"a1", "a2"}

NoUser == "anonymous"

TokenLength == 30

\* the character set of Unique.String
TokenAlphabet == <<65, 66>>

RECURSIVE Digits(_, _)
Digits(n, k) ==
    IF n = 0 THEN <<>>
    ELSE <<TokenAlphabet[(k % Len(TokenAlphabet)) + 1]>>
             \o Digits(n - 1, k \div Len(TokenAlphabet))

\* Unique.String(Length): a random string of Length characters; `draw` is the
\* random outcome, and distinct draws give distinct strings
UniqueString(Length, draw) == Digits(Length, draw)

\* the random outcome of the next issuance: never one drawn before
NextDraw == Len(calls) + 1

\* Response.cookie('Remember', Token, ...) with a one-day maxAge and unsigned
RememberCookieShort(Token) ==
    [name |-> "Remember", value |-> Token,
     maxAge |-> 60 * 60 * 24, httpOnly |-> TRUE, signed |-> FALSE]

\* the cookie SetRemember sets (maxAge in seconds)
RememberCookie(Token) ==
    [name |-> "Remember", value |-> Token,
     maxAge |-> 60 * 60 * 24 * 30, httpOnly |-> TRUE, signed |-> TRUE]

\* a fresh Response object
NewResponse == [cookies |-> <<>>, error |-> FALSE, sent |-> FALSE]

\* Response.cookie(...)
SetCookie(Response, cookie) == [Response EXCEPT !.cookies = Append(@, cookie)]

\* updateOne built but never executed
UpdateOneDropped(rem, acct, update) == rem

\* updateOne that writes only when no token is stored yet
UpdateOneIfUnset(rem, acct, update) ==
    IF rem[acct] = Null THEN [rem EXCEPT ![acct] = update.Remember] ELSE rem

\* this.updateOne({ Remember: Token }) applied by the database
UpdateOne(rem, acct, update) == [rem EXCEPT ![acct] = update.Remember]

\* the updateOne callback passing the error on to the response
UpdateOneCallbackSurfacing(Error, st) ==
    IF Error
    THEN [st EXCEPT !.log = Append(@, "DBError"), !.Response.error = TRUE]
    ELSE st

\* the updateOne callback: Logger.Analyze('DBError', Error) on failure, and
\* nothing else; st holds the call's Response and the log
UpdateOneCallback(Error, st) ==
    IF Error THEN [st EXCEPT !.log = Append(@, "DBError")] ELSE st

\* Account.methods.SetRemember(Response): token, cookie, write started
SetRemember(acct) ==
    /\ Len(calls) < MaxCalls
    /\ LET Token == UniqueString(TokenLength, NextDraw) IN
        calls' = Append(calls,
                   [acct |-> acct,
                    Token |-> Token,
                    Response |-> SetCookie(NewResponse, RememberCookie(Token)),
                    update |-> [Remember |-> Token],
                    write |-> "pending"])
    /\ UNCHANGED <<remember, log, lastWrite, req, credVars, sesVars>>

\* the database applies the write of call i and the callback runs without Error
WriteApplied(i) ==
    /\ calls[i].write = "pending"
    /\ remember' = UpdateOne(remember, calls[i].acct, calls[i].update)
    /\ lastWrite' = [lastWrite EXCEPT ![calls[i].acct] = i]
    /\ LET st == UpdateOneCallback(FALSE, [Response |-> calls[i].Response, log |-> log]) IN
        /\ calls' = [calls EXCEPT ![i].write = "applied", ![i].Response = st.Response]
        /\ log' = st.log
    /\ UNCHANGED <<req, credVars, sesVars>>

\* the write of call i fails and the callback runs with an Error
WriteFailed(i) ==
    /\ calls[i].write = "pending"
    /\ LET st == UpdateOneCallback(TRUE, [Response |-> calls[i].Response, log |-> log]) IN
        /\ calls' = [calls EXCEPT ![i].write = "failed", ![i].Response = st.Response]
        /\ log' = st.log
    /\ UNCHANGED <<remember, lastWrite, req, credVars, sesVars>>

\* the controller that called SetRemember ends the response; SetRemember
\* returned without waiting for the write
SendResponse(i) ==
    /\ ~calls[i].Response.sent
    /\ calls' = [calls EXCEPT ![i].Response.sent = TRUE]
    /\ UNCHANGED <<remember, log, lastWrite, req, credVars, sesVars>>

-----------------------------------------------------------------------------
(* Remember-me: the inbound request *)

\* the chain with the role gate ahead of the Remember middleware
MiddlewareGateFirst ==
    <<"session", "cookieParser", "passport", "Gate", "Remember", "Routes">>

\* the order of the App.use calls that matter to authentication
Middleware ==
    <<"session", "cookieParser", "passport", "Remember", "Gate", "Routes">>

NoCookie == [value |-> Null, sig |-> "none"]

\* the Remember cookies a client may present: any token value, issued or not,
\* validly signed or not
RequestCookies ==
    {NoCookie}
    \cup {[value |-> UniqueString(TokenLength, k), sig |-> s] :
             k \in 1..(MaxCalls + 1), s \in {"valid", "invalid"}}

NotParsed == [parsed |-> FALSE, Remember |-> Null]

\* cookieParser with no signature check
CookieParserUnverified(cookie) ==
    [parsed |-> TRUE, Remember |-> cookie.value]

\* cookieParser(secret): req.signedCookies.Remember is the value of a validly
\* signed cookie, false for a bad signature, undefined for no cookie
CookieParser(cookie) ==
    [parsed |-> TRUE,
     Remember |-> IF cookie.sig = "valid" THEN cookie.value ELSE Null]

\* Account.findOne({ Remember: value }): the accounts it may return
FindByRemember(rem, value) == {a \in Accounts : rem[a] = value}

\* Remember.Handle: the user the request has after it
RememberHandle(r, found) ==
    IF r.user # NoUser THEN r.user                      \* already authenticated
    ELSE IF r.signedCookies.Remember = Null THEN NoUser \* no valid cookie
    ELSE found                                          \* the account found, or none

Idle ==
    [pos |-> 0, session |-> NoUser, cookie |-> NoCookie,
     signedCookies |-> NotParsed, user |-> NoUser, match |-> NoUser,
     gateUser |-> NoUser, routeUser |-> NoUser, error |-> FALSE]

Ran(r, name) == \E i \in 1..Len(Middleware) : Middleware[i] = name /\ i < r.pos

Current(name) ==
    /\ req.pos \in 1..Len(Middleware)
    /\ Middleware[req.pos] = name

\* a request arrives: with or without an active session, with or without a cookie
BeginRequest(sessionUser, cookie) ==
    /\ req.pos = 0 \/ req.pos > Len(Middleware)
    /\ req' = [Idle EXCEPT !.pos = 1, !.session = sessionUser, !.cookie = cookie]
    /\ UNCHANGED <<remember, calls, log, lastWrite, credVars, sesVars>>

\* express-session: loads the session the session cookie names
SessionStep ==
    /\ Current("session")
    /\ req' = [req EXCEPT !.pos = @ + 1]
    /\ UNCHANGED <<remember, calls, log, lastWrite, credVars, sesVars>>

CookieParserStep ==
    /\ Current("cookieParser")
    /\ req' = [req EXCEPT !.pos = @ + 1, !.signedCookies = CookieParser(req.cookie)]
    /\ UNCHANGED <<remember, calls, log, lastWrite, credVars, sesVars>>

\* passport.initialize(), passport.session(): req.user from the session
PassportStep ==
    /\ Current("passport")
    /\ req' = [req EXCEPT !.pos = @ + 1, !.user = req.session]
    /\ UNCHANGED <<remember, calls, log, lastWrite, credVars, sesVars>>

\* Remember.Handle; match records which account's stored token equalled the
\* presented cookie value at this moment
RememberStep ==
    /\ Current("Remember")
    /\ LET hits == FindByRemember(remember, req.signedCookies.Remember)
           raw == FindByRemember(remember, req.cookie.value)
       IN \E found \in (IF hits = {} THEN {NoUser} ELSE hits),
             m \in (IF raw = {} \/ req.cookie.value = Null THEN {NoUser} ELSE raw) :
            req' = [req EXCEPT !.pos = @ + 1,
                               !.user = RememberHandle(req, found),
                               !.match = m]
    /\ UNCHANGED <<remember, calls, log, lastWrite, credVars, sesVars>>

\* Gate.middleware(): the role gate sees req.user
GateStep ==
    /\ Current("Gate")
    /\ req' = [req EXCEPT !.pos = @ + 1, !.gateUser = req.user]
    /\ UNCHANGED <<remember, calls, log, lastWrite, credVars, sesVars>>

\* the routes handle the request as req.user
RoutesStep ==
    /\ Current("Routes")
    /\ req' = [req EXCEPT !.pos = @ + 1, !.routeUser = req.user]
    /\ UNCHANGED <<remember, calls, log, lastWrite, credVars, sesVars>>

NextRemember ==
    \/ \E a \in Accounts : SetRemember(a)
    \/ \E i \in 1..Len(calls) : WriteApplied(i)
    \/ \E i \in 1..Len(calls) : WriteFailed(i)
    \/ \E i \in 1..Len(calls) : SendResponse(i)
    \/ \E u \in Accounts \cup {NoUser}, c \in RequestCookies : BeginRequest(u, c)
    \/ SessionStep
    \/ CookieParserStep
    \/ PassportStep
    \/ RememberStep
    \/ GateStep
    \/ RoutesStep


-----------------------------------------------------------------------------
(* The session cookie *)

\* 1000 * 60 * 60 * 6 ms
SixHours == 60 * 60 * 6

Hour == 60 * 60

\* the cookie option of session({...}): evaluated once, when the server
\* starts and App.use(session(...)) runs
SessionCookieOptions(startedAt) == [expires |-> startedAt + SixHours]

\* time passes
Tick ==
    /\ now < MaxUptimeHours * Hour
    /\ now' = now + Hour
    /\ UNCHANGED <<cookieOpts, sessions, credVars, remVars>>

\* express-session issues a session to a request that has none: the session's
\* cookie is built from the option object, expires included as given
IssueSession ==
    /\ Len(sessions) < MaxSessions
    /\ sessions' = Append(sessions, [issuedAt |-> now, expires |-> cookieOpts.expires])
    /\ UNCHANGED <<now, cookieOpts, credVars, remVars>>

NextSession ==
    \/ Tick
    \/ IssueSession

-----------------------------------------------------------------------------

vars == <<credVars, remVars, sesVars>>

Init ==
    /\ doc = Null
    /\ stored = Null
    /\ created = Null
    /\ saves = 0
    /\ updates = 0
    /\ lastOp = NoOp
    /\ remember = [a \in Accounts |-> Null]
    /\ calls = <<>>
    /\ log = <<>>
    /\ lastWrite = [a \in Accounts |-> 0]
    /\ req = Idle
    /\ now = 0
    /\ cookieOpts = SessionCookieOptions(0)
    /\ sessions = <<>>

SpecCredential == Init /\ [][NextCredential]_vars

SpecRemember == Init /\ [][NextRemember]_vars

SpecSession == Init /\ [][NextSession]_vars

-----------------------------------------------------------------------------
(* Properties: credential *)

\* C1: right after the first save of an account created with password P,
\* ComparePassword(P) is true and ComparePassword(P') is false for every
\* other password P' of the bounded set.
C1_SavedOnceVerifies ==
    (saves = 1 /\ lastOp.op = "save") =>
        \A P \in Passwords : ComparePassword(stored, P) <=> (P = created)

C1_Witness ==
    /\ saves = 1
    /\ lastOp.op = "save"
    /\ ComparePassword(stored, created)
    /\ \E P \in Passwords : P # created /\ ~ComparePassword(stored, P)

\* C7: a save in which the password was not changed leaves the stored
\* Password as it was, and ComparePassword of the account's password is
\* still true after it.
C7_SaveKeepsCredential ==
    (lastOp.op = "save" /\ ~lastOp.pwChange) =>
        /\ stored.Password = lastOp.before
        /\ ComparePassword(stored, created)

\* C10: a findOneAndUpdate whose update sets no Password completes without
\* error and leaves the stored Password unchanged.
C10_UpdateWithoutPassword ==
    (lastOp.op = "findOneAndUpdate" /\ ~lastOp.pwChange) =>
        /\ ~lastOp.error
        /\ stored.Password = lastOp.before

-----------------------------------------------------------------------------
(* Properties: remember-me *)

CallsOf(a) == {i \in 1..Len(calls) : calls[i].acct = a}

\* a validly signed cookie carrying Token is accepted as account a
Authenticates(Token, a) == FindByRemember(remember, Token) = {a}

AuthenticatesNone(Token) == FindByRemember(remember, Token) = {}

\* C2 as stated: once two SetRemember calls on one account are over, their
\* writes included, the earlier token authenticates nobody and the latest
\* token authenticates as that account.
C2_SecondCallInvalidatesFirst ==
    \A a \in Accounts : \A i, j \in CallsOf(a) :
        (/\ i < j
         /\ \A k \in CallsOf(a) : k <= j /\ calls[k].write # "pending") =>
            /\ AuthenticatesNone(calls[i].Token)
            /\ Authenticates(calls[j].Token, a)

\* C2 as amended: of two SetRemember calls on one account, once the earlier
\* call's write has completed and the later call's write is the one applied
\* last, the earlier token authenticates nobody and the later token
\* authenticates as that account.
C2_AppliedInOrderInvalidatesFirst ==
    \A a \in Accounts : \A i, j \in CallsOf(a) :
        (i < j /\ calls[i].write # "pending" /\ lastWrite[a] = j) =>
            /\ AuthenticatesNone(calls[i].Token)
            /\ Authenticates(calls[j].Token, a)

C2_Witness ==
    \E a \in Accounts : \E i, j \in CallsOf(a) :
        /\ i < j
        /\ calls[i].write = "applied"
        /\ calls[j].write = "applied"
        /\ lastWrite[a] = j
        /\ AuthenticatesNone(calls[i].Token)
        /\ Authenticates(calls[j].Token, a)

\* C3: when a request with no active session carries a validly signed
\* Remember cookie whose value is the token stored on an account at the
\* lookup, the role gate and the routes run with that account as the user.
C3_RememberBeforeGate ==
    (/\ Ran(req, "Remember")
     /\ req.session = NoUser
     /\ req.cookie.sig = "valid"
     /\ req.match # NoUser) =>
        /\ req.user = req.match
        /\ Ran(req, "Gate") => req.gateUser = req.match
        /\ Ran(req, "Routes") => req.routeUser = req.match

C3_Witness ==
    /\ Ran(req, "Routes")
    /\ req.session = NoUser
    /\ req.cookie.sig = "valid"
    /\ req.match \in Accounts
    /\ req.gateUser = req.match
    /\ req.routeUser = req.match

C5_CookieAndWrite ==
    \A i \in 1..Len(calls) :
        LET c == calls[i] IN
        /\ Len(c.Token) = 30
        /\ Len(c.Response.cookies) = 1
        /\ c.Response.cookies[1] =
               [name |-> "Remember", value |-> c.Token, maxAge |-> 2592000,
                httpOnly |-> TRUE, signed |-> TRUE]
        /\ c.update = [Remember |-> c.Token]

C5_Witness ==
    /\ Len(calls) = 2
    /\ calls[1].Token # calls[2].Token
    /\ Len(calls[2].Token) = 30
    /\ calls[2].Response.cookies[1].value = calls[2].Token

\* a step in which the write of call i fails
WriteFails(i) == calls[i].write = "pending" /\ calls'[i].write = "failed"

\* C6: the step in which a SetRemember write fails adds one DBError entry to
\* the log and nothing more: the stored Remember tokens stay as they are and
\* the call's Response keeps its cookie, is not turned into an error, and is
\* sent or still to be sent exactly as before.
C6_FailedWriteOnlyLogs ==
    [][\A i \in 1..Len(calls) :
         WriteFails(i) =>
            /\ remember' = remember
            /\ log' = Append(log, "DBError")
            /\ calls'[i].Response = calls[i].Response
            /\ ~calls'[i].Response.error
            /\ calls'[i].Response.cookies = <<RememberCookie(calls[i].Token)>>]_vars

C6_Witness ==
    \E i, j \in 1..Len(calls) :
        /\ calls[i].write = "failed"
        /\ calls[i].Response.sent
        /\ ~calls[i].Response.error
        /\ calls[i].Response.cookies[1].value = calls[i].Token
        /\ remember[calls[i].acct] # calls[i].Token
        /\ Len(log) >= 1
        /\ calls[j].write = "pending"
        /\ calls[j].Response.sent

\* C9: whatever the order in which the writes of the SetRemember calls on one
\* account are applied, the stored token is the token of the write applied
\* last, so exactly one of the tokens issued for the account authenticates.
C9_LastWriteWins ==
    \A a \in Accounts :
        lastWrite[a] # 0 =>
            /\ remember[a] = calls[lastWrite[a]].Token
            /\ {i \in CallsOf(a) : Authenticates(calls[i].Token, a)} = {lastWrite[a]}
            /\ \A i \in CallsOf(a) \ {lastWrite[a]} : AuthenticatesNone(calls[i].Token)

C9_Witness ==
    \E a \in Accounts :
        /\ CallsOf(a) = {1, 2}
        /\ calls[1].write = "applied"
        /\ calls[2].write = "applied"
        /\ lastWrite[a] = 1
        /\ Authenticates(calls[1].Token, a)
        /\ AuthenticatesNone(calls[2].Token)

-----------------------------------------------------------------------------
(* Properties: session cookie *)

\* C8: every session cookie issued expires six hours after the moment it
\* was issued.
C8_SixHoursFromIssue ==
    \A i \in 1..Len(sessions) :
        sessions[i].expires - sessions[i].issuedAt = SixHours

=============================================================================
